---- MODULE Spec2Model ----
(***************************************************************************)
(* Model of src/services/ollamaService.js (class OllamaService).           *)
(*                                                                         *)
(* Text is a sequence of one-character strings.  A JavaScript value is a   *)
(* record [t, s, n, k]: t is the type tag, s the characters of a string,   *)
(* n the value of a number, k the elements of an array or the members      *)
(* (records [key, val]) of an object.                                      *)
(***************************************************************************)
EXTENDS Integers, Sequences, FiniteSets, TLC

(***************************************************************************)
(* JavaScript values                                                       *)
(***************************************************************************)
Undef == [t |-> "undef", s |-> <<>>, n |-> 0, k |-> <<>>]
Null == [t |-> "null", s |-> <<>>, n |-> 0, k |-> <<>>]
JTrue == [t |-> "bool", s |-> <<>>, n |-> 1, k |-> <<>>]
JFalse == [t |-> "bool", s |-> <<>>, n |-> 0, k |-> <<>>]
Str(chars) == [t |-> "str", s |-> chars, n |-> 0, k |-> <<>>]
Num(x) == [t |-> "num", s |-> <<>>, n |-> x, k |-> <<>>]
Arr(elems) == [t |-> "arr", s |-> <<>>, n |-> 0, k |-> elems]
Obj(members) == [t |-> "obj", s |-> <<>>, n |-> 0, k |-> members]

\* JavaScript truthiness, as used by `x || null` and `!x`.
Truthy(v) ==
    CASE v.t = "undef" -> FALSE
      [] v.t = "null" -> FALSE
      [] v.t = "bool" -> v.n = 1
      [] v.t = "num" -> v.n # 0
      [] v.t = "str" -> Len(v.s) > 0
      [] OTHER -> TRUE

\* Array.isArray(v)
IsArray(v) == v.t = "arr"

\* obj.key : the value of the last member named key (JSON.parse keeps the
\* last of duplicate names), undefined when there is none or obj is no object.
RECURSIVE GetFrom(_, _, _)
GetFrom(members, key, i) ==
    IF i = 0 THEN Undef
    ELSE IF members[i].key = key THEN members[i].val
    ELSE GetFrom(members, key, i - 1)

Get(obj, key) == IF obj.t = "obj" THEN GetFrom(obj.k, key, Len(obj.k)) ELSE Undef

(***************************************************************************)
(* Character classes of the regular expressions and of JSON                *)
(***************************************************************************)
DQ == "\""
SQ == "'"
Digits == {"0", "1", "2", "3", "4", "5", "6", "7", "8", "9"}
Letters == {"a", "b", "c", "d", "e", "f", "g", "h", "i", "j", "k", "l", "m",
            "n", "o", "p", "q", "r", "s", "t", "u", "v", "w", "x", "y", "z",
            "A", "B", "C", "D", "E", "F", "G", "H", "I", "J", "K", "L", "M",
            "N", "O", "P", "Q", "R", "S", "T", "U", "V", "W", "X", "Y", "Z"}
\* [a-zA-Z0-9_]
IsWordChar(c) == c \in Letters \cup Digits \cup {"_"}
\* \s, and JSON's insignificant whitespace
IsSpace(c) == c \in {" ", "\n", "\t", "\r"}
\* ['"]
IsQuote(c) == c \in {DQ, SQ}

DigitVal(c) ==
    CASE c = "0" -> 0 [] c = "1" -> 1 [] c = "2" -> 2 [] c = "3" -> 3
      [] c = "4" -> 4 [] c = "5" -> 5 [] c = "6" -> 6 [] c = "7" -> 7
      [] c = "8" -> 8 [] c = "9" -> 9

\* The first index >= i of s whose character is no whitespace (Len(s)+1 if none).
RECURSIVE SkipSpace(_, _)
SkipSpace(s, i) ==
    IF i <= Len(s) /\ IsSpace(s[i]) THEN SkipSpace(s, i + 1) ELSE i

\* Whether the characters of lit stand in s at index i.
StartsAt(s, i, lit) ==
    /\ i + Len(lit) - 1 <= Len(s)
    /\ \A j \in 1..Len(lit) : s[i + j - 1] = lit[j]

(***************************************************************************)
(* JSON.parse, for texts without escape sequences, fractions, exponents    *)
(* and signs (the alphabet of the inputs has none of \ . - +).             *)
(* A parse step returns [ok, v, i]: success, the value, the next index.    *)
(***************************************************************************)
PFail == [ok |-> FALSE, v |-> Undef, i |-> 0]
POk(v, i) == [ok |-> TRUE, v |-> v, i |-> i]

\* The index of the closing double quote of the string opened before i, 0 when
\* the string is not closed or holds a control character.
RECURSIVE StringEnd(_, _)
StringEnd(s, i) ==
    IF i > Len(s) THEN 0
    ELSE IF s[i] = DQ THEN i
    ELSE IF s[i] \in {"\n", "\t", "\r", "\\"} THEN 0
    ELSE StringEnd(s, i + 1)

\* The string whose opening quote is at i and whose closing quote is at e.
StringTo(s, i, e) ==
    IF e = 0 THEN PFail ELSE POk(Str(SubSeq(s, i + 1, e - 1)), e + 1)

ParseString(s, i) ==
    IF i <= Len(s) /\ s[i] = DQ THEN StringTo(s, i, StringEnd(s, i + 1)) ELSE PFail

\* The index after the run of digits starting at i.
RECURSIVE DigitsEnd(_, _)
DigitsEnd(s, i) ==
    IF i <= Len(s) /\ s[i] \in Digits THEN DigitsEnd(s, i + 1) ELSE i

RECURSIVE DigitsValue(_, _, _, _)
DigitsValue(s, i, e, acc) ==
    IF i >= e THEN acc ELSE DigitsValue(s, i + 1, e, acc * 10 + DigitVal(s[i]))

\* A JSON number: 0, or a digit 1-9 followed by digits.  After a leading 0 the
\* number ends, so "01" leaves "1" unread and the caller fails on it.
ParseNumber(s, i) ==
    IF s[i] = "0" THEN POk(Num(0), i + 1)
    ELSE POk(Num(DigitsValue(s, i, DigitsEnd(s, i), 0)), DigitsEnd(s, i))

RECURSIVE ParseValue(_, _)
RECURSIVE ParseElements(_, _, _)
RECURSIVE ParseMembers(_, _, _)
RECURSIVE ElementEnd(_, _, _)
RECURSIVE MemberEnd(_, _, _)
RECURSIVE AfterElement(_, _, _)
RECURSIVE AfterMember(_, _, _, _)
RECURSIVE AfterName(_, _, _, _)
RECURSIVE AfterKey(_, _, _)

\* After an element, at index j: "]" ends the array, "," brings another.
ElementEnd(s, acc, j) ==
    IF j > Len(s) THEN PFail
    ELSE IF s[j] = "]" THEN POk(Arr(acc), j + 1)
    ELSE IF s[j] = "," THEN ParseElements(s, SkipSpace(s, j + 1), acc)
    ELSE PFail

AfterElement(s, acc, r) ==
    IF ~r.ok THEN PFail ELSE ElementEnd(s, Append(acc, r.v), SkipSpace(s, r.i))

\* The elements of an array after "[" or ",": i is at the next element.
ParseElements(s, i, acc) == AfterElement(s, acc, ParseValue(s, i))

\* After a member, at index j: "}" ends the object, "," brings another.
MemberEnd(s, acc, j) ==
    IF j > Len(s) THEN PFail
    ELSE IF s[j] = "}" THEN POk(Obj(acc), j + 1)
    ELSE IF s[j] = "," THEN ParseMembers(s, SkipSpace(s, j + 1), acc)
    ELSE PFail

AfterMember(s, acc, name, r) ==
    IF ~r.ok THEN PFail
    ELSE MemberEnd(s, Append(acc, [key |-> name, val |-> r.v]), SkipSpace(s, r.i))

\* After a member's name, at index c: ":" and the member's value.
AfterName(s, acc, name, c) ==
    IF c > Len(s) \/ s[c] # ":" THEN PFail
    ELSE AfterMember(s, acc, name, ParseValue(s, SkipSpace(s, c + 1)))

AfterKey(s, acc, key) ==
    IF ~key.ok THEN PFail ELSE AfterName(s, acc, key.v.s, SkipSpace(s, key.i))

\* The members of an object after "{" or ",": i is at the next member's name,
\* which must be a double-quoted string.
ParseMembers(s, i, acc) == AfterKey(s, acc, ParseString(s, i))

\* After "{", at index j.
ObjectAt(s, j) ==
    IF j <= Len(s) /\ s[j] = "}" THEN POk(Obj(<<>>), j + 1) ELSE ParseMembers(s, j, <<>>)

\* After "[", at index j.
ArrayAt(s, j) ==
    IF j <= Len(s) /\ s[j] = "]" THEN POk(Arr(<<>>), j + 1) ELSE ParseElements(s, j, <<>>)

\* A JSON value at index i (i is at no whitespace).
ParseValue(s, i) ==
    IF i > Len(s) THEN PFail
    ELSE IF s[i] = "{" THEN ObjectAt(s, SkipSpace(s, i + 1))
    ELSE IF s[i] = "[" THEN ArrayAt(s, SkipSpace(s, i + 1))
    ELSE IF s[i] = DQ THEN ParseString(s, i)
    ELSE IF s[i] \in Digits THEN ParseNumber(s, i)
    ELSE IF StartsAt(s, i, <<"n", "u", "l", "l">>) THEN POk(Null, i + 4)
    ELSE IF StartsAt(s, i, <<"t", "r", "u", "e">>) THEN POk(JTrue, i + 4)
    ELSE IF StartsAt(s, i, <<"f", "a", "l", "s", "e">>) THEN POk(JFalse, i + 5)
    ELSE PFail

\* The value r read from s is the whole text but for whitespace.
WholeText(s, r) ==
    IF r.ok /\ SkipSpace(s, r.i) > Len(s) THEN [ok |-> TRUE, v |-> r.v]
    ELSE [ok |-> FALSE, v |-> Undef]

\* JSON.parse(text): [ok, v]; ok = FALSE stands for the SyntaxError it throws.
JSONParse(s) == WholeText(s, ParseValue(s, SkipSpace(s, 1)))

(***************************************************************************)
(* The regular expressions of _parseResponse                               *)
(***************************************************************************)
RECURSIVE FirstIndexOf(_, _, _)
FirstIndexOf(s, c, i) ==
    IF i > Len(s) THEN 0 ELSE IF s[i] = c THEN i ELSE FirstIndexOf(s, c, i + 1)

RECURSIVE LastIndexOf(_, _, _)
LastIndexOf(s, c, i) ==
    IF i = 0 THEN 0 ELSE IF s[i] = c THEN i ELSE LastIndexOf(s, c, i - 1)

\* The span of s from f to l, when f is an index and l one after it.
Span(s, f, l) ==
    IF f > 0 /\ l > f THEN [found |-> TRUE, str |-> SubSeq(s, f, l)]
    ELSE [found |-> FALSE, str |-> <<>>]

\* response.match(/\{[\s\S]*\}/): the span from the first "{" to the last "}"
\* after it; found = FALSE stands for the null of no match.
MatchJson(s) == Span(s, FirstIndexOf(s, "{", 1), LastIndexOf(s, "}", Len(s)))

RECURSIVE StripCommaBefore(_, _, _)
RECURSIVE StripAt(_, _, _, _)

\* At index i, with j the first index after i and the whitespace behind it:
\* a comma at i with the closing character at j is dropped with the whitespace.
StripAt(s, close, i, j) ==
    IF s[i] = "," /\ j <= Len(s) /\ s[j] = close
    THEN <<close>> \o StripCommaBefore(s, close, j + 1)
    ELSE <<s[i]>> \o StripCommaBefore(s, close, i + 1)

\* s.replace(/,\s*X/g, 'X') for a closing character X, read from index i on.
StripCommaBefore(s, close, i) ==
    IF i > Len(s) THEN <<>> ELSE StripAt(s, close, i, SkipSpace(s, i + 1))

\* The index after the run of [a-zA-Z0-9_] starting at i.
RECURSIVE WordEnd(_, _)
WordEnd(s, i) ==
    IF i <= Len(s) /\ IsWordChar(s[i]) THEN WordEnd(s, i + 1) ELSE i

\* The index after the quote at i, or i when there is none.
SkipQuote(s, i) == IF i <= Len(s) /\ IsQuote(s[i]) THEN i + 1 ELSE i

RECURSIVE QuoteNames(_, _)
RECURSIVE NameAt(_, _, _, _, _)

\* At index i a name is tried: its word is s[w..e-1] and c is the index after
\* the quote and the whitespace that may follow it.  With a word and ":" at c
\* the match is replaced by the word in double quotes and ":".
NameAt(s, i, w, e, c) ==
    IF e > w /\ c <= Len(s) /\ s[c] = ":"
    THEN <<DQ>> \o SubSeq(s, w, e - 1) \o <<DQ, ":">> \o QuoteNames(s, c + 1)
    ELSE <<s[i]>> \o QuoteNames(s, i + 1)

\* s.replace(/(['"])?([a-zA-Z0-9_]+)(['"])?\s*:/g, '"$2":'), read from index i
\* on.  At i the pattern takes a quote if there is one, the whole run of word
\* characters, a quote if there is one, the whitespace, and needs ":"; no
\* shorter choice of an optional or repeated part can match where that fails.
QuoteNames(s, i) ==
    IF i > Len(s) THEN <<>>
    ELSE NameAt(s, i, SkipQuote(s, i), WordEnd(s, SkipQuote(s, i)),
                SkipSpace(s, SkipQuote(s, WordEnd(s, SkipQuote(s, i)))))

\* The repair without the replacement that quotes the names.
SanitizeCommasOnly(jsonStr) ==
    StripCommaBefore(StripCommaBefore(jsonStr, "}", 1), "]", 1)

\* The three replacements of the repair stage, in the code's order.
Sanitize(jsonStr) ==
    QuoteNames(StripCommaBefore(StripCommaBefore(jsonStr, "}", 1), "]", 1), 1)

(***************************************************************************)
(* _parseResponse                                                          *)
(***************************************************************************)
KTags == <<"t", "a", "g", "s">>
KCorrespondent == <<"c", "o", "r", "r", "e", "s", "p", "o", "n", "d", "e", "n", "t">>
KTitle == <<"t", "i", "t", "l", "e">>
KDocumentDate == <<"d", "o", "c", "u", "m", "e", "n", "t", "_", "d", "a", "t", "e">>
KLanguage == <<"l", "a", "n", "g", "u", "a", "g", "e">>

\* x || null with the fallback lost: the value as it is.
OrNullKeepsFalsy(v) == v

\* x || null
OrNull(v) == IF Truthy(v) THEN v ELSE Null

\* { tags: [], correspondent: null }: title, document_date and language are
\* not set.
DefaultDocument ==
    [tags |-> Arr(<<>>), correspondent |-> Null, title |-> Undef,
     document_date |-> Undef, language |-> Undef]

\* Reading a property of null or undefined throws a TypeError.
CanReadProperty(v) == v.t \notin {"null", "undef"}

\* The tags read from a property the parsed object does not have.
TagsOfMisnamed(tags) == Arr(<<>>)

\* Array.isArray(tags) ? tags : []
TagsOf(tags) == IF IsArray(tags) THEN tags ELSE Arr(<<>>)

\* The record built from a parsed value.
Coerce(result) ==
    [tags |-> TagsOf(Get(result, KTags)),
     correspondent |-> OrNull(Get(result, KCorrespondent)),
     title |-> OrNull(Get(result, KTitle)),
     document_date |-> OrNull(Get(result, KDocumentDate)),
     language |-> OrNull(Get(result, KLanguage))]

\* What a call of _parseResponse leaves: whether it threw, the record it
\* returned, how many times it called JSON.parse and whether it ran the repair.
Outcome(thrown, doc, parses, sanitized) ==
    [thrown |-> thrown, doc |-> doc, parses |-> parses, sanitized |-> sanitized]

\* The inner try block, given what JSON.parse made of the repaired text.
SanitizedResult(second) ==
    IF second.ok /\ CanReadProperty(second.v)
    THEN Outcome(FALSE, Coerce(second.v), 2, TRUE)
    ELSE Outcome(FALSE, DefaultDocument, 2, TRUE)

\* The catch of the first parse: repair the text and parse it again.
ParseSanitized(jsonStr) == SanitizedResult(JSONParse(Sanitize(jsonStr)))

\* The first try block, given what JSON.parse made of the matched span.
StrictResult(jsonStr, strict) ==
    IF strict.ok /\ CanReadProperty(strict.v)
    THEN Outcome(FALSE, Coerce(strict.v), 1, FALSE)
    ELSE ParseSanitized(jsonStr)

ParseStrict(jsonStr) == StrictResult(jsonStr, JSONParse(jsonStr))

\* After the match: no match returns the default record.
AfterMatch(jsonMatch) ==
    IF ~jsonMatch.found THEN Outcome(FALSE, DefaultDocument, 0, FALSE)
    ELSE ParseStrict(jsonMatch.str)

\* The body of the outer try block; a response that is no string has no
\* match method and the call throws.
ParseBody(response) ==
    IF response.t # "str" THEN Outcome(TRUE, DefaultDocument, 0, FALSE)
    ELSE AfterMatch(MatchJson(response.s))

\* The outer catch returns the default record.
OuterCatch(body) ==
    IF body.thrown THEN Outcome(FALSE, DefaultDocument, body.parses, body.sanitized)
    ELSE body

\* _parseResponse(response)
ParseResponse(response) == OuterCatch(ParseBody(response))

(***************************************************************************)
(* The service: calls of analyzeDocument, analyzePlayground and            *)
(* writePromptToFile, the thumbnail cache and the prompt log.              *)
(*                                                                         *)
(* Each action is one asynchronous operation taking effect together with   *)
(* the code that runs when its await resumes, up to the next await.        *)
(*                                                                         *)
(* All calls of analyzeDocument are for one document identifier, the case in *)
(* which calls share a cache file: cache is the file ./public/images/<id>.png *)
(* of that identifier.                                                     *)
NumCalls == 2
MaxPrompt == 2
MaxLogEntries == 4

Calls == 1..NumCalls

\* The document content handed to a call: a plain one, or a structure with a
\* cycle, which JSON.stringify refuses.
Contents == {[circular |-> TRUE, size |-> 0], [circular |-> FALSE, size |-> 1]}

\* The prompts handed to writePromptToFile by a direct caller, by size.
Prompts == 1..MaxPrompt

\* The length of the prompt built from a content of size n: the model's
\* contents are large, so that a few prompts fill the log.
PromptLen(n) == n * 4 * 1024 * 1024

\* const maxSize = 10 * 1024 * 1024
maxSize == 10 * 1024 * 1024

\* The entry appendFile writes for a prompt: 80 "=", the prompt, two line
\* breaks, 80 "=", two line breaks.
EntrySize(n) == 80 + PromptLen(n) + 2 + 80 + 2

RECURSIVE LogSize(_)
LogSize(entries) ==
    IF entries = <<>> THEN 0 ELSE EntrySize(Head(entries)) + LogSize(Tail(entries))

\* A log left by earlier runs: three prompts of size 1, more than maxSize.
OldLog == <<1, 1, 1>>

\* The bytes of the document's thumbnail; NoThumbnail is the empty or absent
\* result of the collaborator.  A file's content is the sequence of the data
\* written to it: Truncated is the content of a file just opened.
Thumbnail == "png"
NoThumbnail == "null"
Truncated == <<>>
\* paperlessService.getThumbnailImage(id): the image or nothing.
GetThumbnailImage == {Thumbnail, NoThumbnail}

\* _buildPrompt / the prompt expression of analyzePlayground: both serialise
\* the content with JSON.stringify, which throws on a cycle.  The prompt is
\* identified by the size of the content it holds.
BuildPrompt(content) ==
    [thrown |-> content.circular,
     message |-> IF content.circular THEN "Converting circular structure to JSON" ELSE "",
     prompt |-> content.size]

(***************************************************************************)
(* Results                                                                 *)
(***************************************************************************)
NoResult ==
    [status |-> "pending", document |-> DefaultDocument, metrics |-> "null",
     hasError |-> FALSE, error |-> ""]

\* A catch block that throws the error on.
CatchRethrows(message) ==
    [status |-> "raised", document |-> DefaultDocument, metrics |-> "null",
     hasError |-> TRUE, error |-> message]

\* The catch block of analyzeDocument and analyzePlayground.
Catch(message) ==
    [status |-> "returned", document |-> DefaultDocument, metrics |-> "null",
     hasError |-> TRUE, error |-> message]

\* The result built from the model's reply: zero metrics, no error field.
Analysed(doc) ==
    [status |-> "returned", document |-> doc, metrics |-> "zero",
     hasError |-> FALSE, error |-> ""]

KResponse == <<"r", "e", "s", "p", "o", "n", "s", "e">>
GoodText ==
    <<"{", "\"", "t", "a", "g", "s", "\"", ":", "[", "\"", "A", "\"", "]", ",",
      "\"", "c", "o", "r", "r", "e", "s", "p", "o", "n", "d", "e", "n", "t", "\"",
      ":", "\"", "B", "\"", "}">>
BadText == <<"{", "\"", "t", "a", "g", "s", "\"", " ", "[", "}">>

Envelope(v) == Obj(<<[key |-> KResponse, val |-> v]>>)

\* What the POST comes back with: a rejection (timeout, non-2xx status) or a
\* response whose data is the body.
HttpOutcomes ==
    {[failed |-> TRUE, message |-> "timeout of 1200000ms exceeded", data |-> Undef],
     [failed |-> TRUE, message |-> "Request failed with status code 500", data |-> Undef],
     [failed |-> FALSE, message |-> "", data |-> Str(<<>>)],
     [failed |-> FALSE, message |-> "", data |-> Obj(<<>>)],
     [failed |-> FALSE, message |-> "", data |-> Envelope(Str(<<>>))],
     [failed |-> FALSE, message |-> "", data |-> Envelope(Str(GoodText))],
     [failed |-> FALSE, message |-> "", data |-> Envelope(Str(BadText))]}

\* The result built from what _parseResponse left.
ResultOf(parsedResponse) ==
    IF parsedResponse.thrown THEN Catch("TypeError") ELSE Analysed(parsedResponse.doc)

\* The code after the POST: the envelope check, _parseResponse, the result.
HandleReply(reply) ==
    IF reply.failed THEN Catch(reply.message)
    ELSE IF ~Truthy(reply.data) \/ ~Truthy(Get(reply.data, KResponse))
         THEN Catch("Invalid response from Ollama API")
    ELSE ResultOf(ParseResponse(Get(reply.data, KResponse)))

(***************************************************************************)
(* The arguments of _parseResponse: a JSON object written in some style    *)
(* between two pieces of text, a text put together from fragments, or a    *)
(* value that is no string.                                                *)
(***************************************************************************)
MaxTags == 2
MaxJunk == 3

NameStyle(name, names) ==
    IF names = "double" THEN <<DQ>> \o name \o <<DQ>>
    ELSE IF names = "single" THEN <<SQ>> \o name \o <<SQ>>
    ELSE name

DigitChars == <<"0", "1", "2", "3", "4", "5", "6", "7", "8", "9">>

\* "," after the last element or member, where the style has it.
TrailingComma(k, wanted) == IF wanted /\ Len(k) > 0 THEN <<",">> ELSE <<>>

RECURSIVE ValueText(_, _)
RECURSIVE ElementsText(_, _, _)
RECURSIVE MembersText(_, _, _)

\* The elements from the i-th on, separated by ", ".
ElementsText(k, i, style) ==
    IF i > Len(k) THEN <<>>
    ELSE (IF i > 1 THEN <<",", " ">> ELSE <<>>)
             \o ValueText(k[i], style) \o ElementsText(k, i + 1, style)

\* The members from the i-th on, each name: value, separated by ", ".
MembersText(k, i, style) ==
    IF i > Len(k) THEN <<>>
    ELSE (IF i > 1 THEN <<",", " ">> ELSE <<>>)
             \o NameStyle(k[i].key, style.names) \o <<":", " ">>
             \o ValueText(k[i].val, style) \o MembersText(k, i + 1, style)

\* The text of a value (numbers are single digits) in a style: how names are
\* quoted, and whether arrays and objects end in a comma.
ValueText(v, style) ==
    CASE v.t = "str" -> <<DQ>> \o v.s \o <<DQ>>
      [] v.t = "num" -> <<DigitChars[v.n + 1]>>
      [] v.t = "null" -> <<"n", "u", "l", "l">>
      [] v.t = "bool" -> IF v.n = 1 THEN <<"t", "r", "u", "e">> ELSE <<"f", "a", "l", "s", "e">>
      [] v.t = "arr" ->
            <<"[">> \o ElementsText(v.k, 1, style)
                \o TrailingComma(v.k, style.arrayComma) \o <<"]">>
      [] v.t = "obj" ->
            <<"{">> \o MembersText(v.k, 1, style)
                \o TrailingComma(v.k, style.objectComma) \o <<"}">>

Styles == [names : {"double", "single", "bare"}, arrayComma : BOOLEAN, objectComma : BOOLEAN]
\* Well-formed JSON.
Strict == [names |-> "double", arrayComma |-> FALSE, objectComma |-> FALSE]

TagValues == {Str(<<"A">>), Str(<<"b", ":">>)}
TagArrays == {Arr(tags) : tags \in UNION {[1..n -> TagValues] : n \in 0..MaxTags}}
\* Undef: the member is not set.
TagsValues == TagArrays \cup {Undef, Null, Str(<<"A">>)}
CorrespondentValues == {Undef, Null, Str(<<"B">>), Str(<<>>), Num(0)}
TitleValues == {Undef, Str(<<"T">>)}

Member(key, v) == IF v = Undef THEN <<>> ELSE <<[key |-> key, val |-> v]>>

Objects ==
    {Obj(Member(KTags, tags) \o Member(KCorrespondent, correspondent) \o Member(KTitle, title)) :
        tags \in TagsValues, correspondent \in CorrespondentValues, title \in TitleValues}

Before == {<<>>, <<"H", "e", "r", "e", ":", " ">>, <<"{", " ">>}
After == {<<>>, <<" ", "o", "k">>, <<" ", "}">>}

Fragments ==
    {<<"{">>, <<"}">>, <<"[">>, <<"]">>, <<",">>, <<":">>, <<"x">>,
     <<DQ, "t", "a", "g", "s", DQ>>}

RECURSIVE Concat(_, _)
Concat(pieces, i) ==
    IF i > Len(pieces) THEN <<>> ELSE pieces[i] \o Concat(pieces, i + 1)

JunkTexts == {Concat(pieces, 1) : pieces \in UNION {[1..n -> Fragments] : n \in 0..MaxJunk}}

NoSource ==
    [kind |-> "none", pre |-> <<>>, post |-> <<>>, obj |-> Undef, style |-> Strict,
     text |-> <<>>, value |-> Undef]

Sources ==
    {[NoSource EXCEPT !.kind = "object", !.pre = pre, !.post = post, !.obj = obj,
                      !.style = style] :
        pre \in Before, post \in After, obj \in Objects, style \in Styles}
    \cup {[NoSource EXCEPT !.kind = "junk", !.text = text] : text \in JunkTexts}
    \cup {[NoSource EXCEPT !.kind = "value", !.value = v] : v \in {Undef, Null, Num(5), Arr(<<>>)}}

\* The argument made from a source.
Render(src) ==
    CASE src.kind = "object" -> Str(src.pre \o ValueText(src.obj, src.style) \o src.post)
      [] src.kind = "junk" -> Str(src.text)
      [] OTHER -> src.value

(***************************************************************************)
(* State                                                                   *)
(***************************************************************************)
VARIABLES
    call,       \* per call: its position, inputs, locals and what it did
    cache,      \* the thumbnail cache file of the document
    log,        \* the prompts of the entries of ./logs/prompt.txt
    logExists,  \* whether ./logs/prompt.txt exists
    source,     \* what the argument of a direct call of _parseResponse is made from
    response,   \* the argument of that call
    parsing,    \* the position of that call
    parsed      \* what that call left

vars == <<call, cache, log, logExists, source, response, parsing, parsed>>

Idle ==
    [pc |-> "idle", kind |-> "none", prompt |-> 0, thumbnailData |-> NoThumbnail,
     hit |-> FALSE, fetches |-> 0, writes |-> 0, posts |-> 0,
     checkFailed |-> FALSE, unlinked |-> FALSE, appended |-> FALSE,
     appendFailed |-> FALSE, fault |-> "", result |-> NoResult]

NoFile == [exists |-> FALSE, data |-> Truncated]

NotParsing == Outcome(FALSE, DefaultDocument, 0, FALSE)

InitService ==
    /\ call = [c \in Calls |-> Idle]
    /\ cache = NoFile
    /\ log \in {<<>>, OldLog}
    /\ logExists = (log # <<>>)

Init ==
    /\ InitService
    /\ source = NoSource
    /\ response = Undef
    /\ parsing = "none"
    /\ parsed = NotParsing

\* The call ends in the catch block.
Fail(c, fault, message) ==
    call' = [call EXCEPT ![c].pc = "done", ![c].fault = fault, ![c].result = Catch(message)]

(***************************************************************************)
(* analyzeDocument                                                         *)
(***************************************************************************)
\* The call starts: the prompt is built and fs.access is issued.
StartDocument(c) ==
    /\ call[c].pc = "idle"
    /\ \E content \in Contents :
          LET built == BuildPrompt(content)
          IN  IF built.thrown
              THEN call' = [call EXCEPT ![c].pc = "done", ![c].kind = "document",
                                        ![c].fault = "build",
                                        ![c].result = Catch(built.message)]
              ELSE call' = [call EXCEPT ![c].pc = "access", ![c].kind = "document",
                                        ![c].prompt = built.prompt]
    /\ UNCHANGED <<cache, log, logExists, source, response, parsing, parsed>>

\* An access that posts at once when the file is cached.
AccessSkipsLog(c) ==
    /\ call[c].pc = "access"
    /\ \E reachable \in BOOLEAN :
          IF cache.exists /\ reachable
          THEN call' = [call EXCEPT ![c].pc = "post", ![c].hit = TRUE]
          ELSE call' = [call EXCEPT ![c].pc = "fetch"]
    /\ UNCHANGED <<cache, log, logExists, source, response, parsing, parsed>>

\* An access after which the thumbnail is requested whatever it found.
AccessAlwaysFetches(c) ==
    /\ call[c].pc = "access"
    /\ \E reachable \in BOOLEAN :
          call' = [call EXCEPT ![c].pc = "fetch", ![c].hit = cache.exists /\ reachable]
    /\ UNCHANGED <<cache, log, logExists, source, response, parsing, parsed>>

\* fs.access(cachePath): resolves when the file can be reached; on rejection
\* the thumbnail is requested.
Access(c) ==
    /\ call[c].pc = "access"
    /\ \E reachable \in BOOLEAN :
          IF cache.exists /\ reachable
          THEN call' = [call EXCEPT ![c].pc = "stat", ![c].hit = TRUE]
          ELSE call' = [call EXCEPT ![c].pc = "fetch"]
    /\ UNCHANGED <<cache, log, logExists, source, response, parsing, parsed>>

\* paperlessService.getThumbnailImage(id) returns; fs.mkdir is issued.
Fetch(c) ==
    /\ call[c].pc = "fetch"
    /\ \E data \in GetThumbnailImage :
          call' = [call EXCEPT ![c].pc = "mkdir", ![c].thumbnailData = data,
                               ![c].fetches = @ + 1]
    /\ UNCHANGED <<cache, log, logExists, source, response, parsing, parsed>>

\* fs.mkdir(dir, {recursive: true}) settles; fs.writeFile is called, which
\* rejects data that is no string or buffer before it opens the file.
Mkdir(c) ==
    /\ call[c].pc = "mkdir"
    /\ \E ok \in BOOLEAN :
          IF ~ok THEN Fail(c, "mkdir", "EACCES: permission denied, mkdir")
          ELSE IF call[c].thumbnailData = NoThumbnail
               THEN Fail(c, "thumbnail", "The data argument must be of type string or buffer")
          ELSE call' = [call EXCEPT ![c].pc = "open"]
    /\ UNCHANGED <<cache, log, logExists, source, response, parsing, parsed>>

\* fs.writeFile opens the file with flag w: created or cut to length 0.
WriteFileOpen(c) ==
    /\ call[c].pc = "open"
    /\ \E ok \in BOOLEAN :
          IF ok
          THEN /\ cache' = [exists |-> TRUE, data |-> Truncated]
               /\ call' = [call EXCEPT ![c].pc = "write"]
          ELSE /\ Fail(c, "write", "EACCES: permission denied, open")
               /\ UNCHANGED cache
    /\ UNCHANGED <<log, logExists, source, response, parsing, parsed>>

\* A write that adds the data to what the file holds.
WriteFileDataAppends(c) ==
    /\ call[c].pc = "write"
    /\ cache' = [exists |-> TRUE, data |-> Append(cache.data, call[c].thumbnailData)]
    /\ call' = [call EXCEPT ![c].pc = "stat", ![c].writes = @ + 1]
    /\ UNCHANGED <<log, logExists, source, response, parsing, parsed>>

\* fs.writeFile writes the data and resolves; writePromptToFile is called and
\* issues fs.stat.
WriteFileData(c) ==
    /\ call[c].pc = "write"
    /\ cache' = [exists |-> TRUE, data |-> <<call[c].thumbnailData>>]
    /\ call' = [call EXCEPT ![c].pc = "stat", ![c].writes = @ + 1]
    /\ UNCHANGED <<log, logExists, source, response, parsing, parsed>>

(***************************************************************************)
(* writePromptToFile                                                       *)
(***************************************************************************)
\* A stat after which the size is not looked at.
LogStatNeverUnlinks(c) ==
    /\ call[c].pc = "stat"
    /\ \E ok \in BOOLEAN :
          IF logExists /\ ~ok
          THEN call' = [call EXCEPT ![c].pc = "append", ![c].checkFailed = TRUE]
          ELSE call' = [call EXCEPT ![c].pc = "append"]
    /\ UNCHANGED <<cache, log, logExists, source, response, parsing, parsed>>

\* fs.stat(filePath) settles: ENOENT when there is no log, another error is
\* warned about; a log larger than maxSize is unlinked next.
LogStat(c) ==
    /\ call[c].pc = "stat"
    /\ \E ok \in BOOLEAN :
          IF ~logExists THEN call' = [call EXCEPT ![c].pc = "append"]
          ELSE IF ~ok THEN call' = [call EXCEPT ![c].pc = "append", ![c].checkFailed = TRUE]
          ELSE IF LogSize(log) > maxSize THEN call' = [call EXCEPT ![c].pc = "unlink"]
          ELSE call' = [call EXCEPT ![c].pc = "append"]
    /\ UNCHANGED <<cache, log, logExists, source, response, parsing, parsed>>

\* fs.unlink(filePath) settles; its rejection is caught with that of stat.
LogUnlink(c) ==
    /\ call[c].pc = "unlink"
    /\ \E ok \in BOOLEAN :
          IF ok /\ logExists
          THEN /\ log' = <<>>
               /\ logExists' = FALSE
               /\ call' = [call EXCEPT ![c].pc = "append", ![c].unlinked = TRUE]
          ELSE /\ call' = [call EXCEPT ![c].pc = "append", ![c].checkFailed = TRUE]
               /\ UNCHANGED <<log, logExists>>
    /\ UNCHANGED <<cache, source, response, parsing, parsed>>

\* fs.appendFile(filePath, entry) settles; its rejection is caught and logged.
\* writePromptToFile returns: analyzeDocument posts, a direct caller is done.
LogAppend(c) ==
    /\ call[c].pc = "append"
    /\ \E ok \in BOOLEAN :
          LET next == IF call[c].kind = "document" THEN "post" ELSE "done"
          IN  IF ok
              THEN /\ log' = Append(log, call[c].prompt)
                   /\ logExists' = TRUE
                   /\ call' = [call EXCEPT ![c].pc = next, ![c].appended = TRUE]
              ELSE /\ call' = [call EXCEPT ![c].pc = next, ![c].appendFailed = TRUE]
                   /\ UNCHANGED <<log, logExists>>
    /\ UNCHANGED <<cache, source, response, parsing, parsed>>

(***************************************************************************)
(* analyzePlayground and the POST                                          *)
(***************************************************************************)
\* The call starts: the prompt is put together and the POST is issued.
StartPlayground(c) ==
    /\ call[c].pc = "idle"
    /\ \E content \in Contents :
          LET built == BuildPrompt(content)
          IN  IF built.thrown
              THEN call' = [call EXCEPT ![c].pc = "done", ![c].kind = "playground",
                                        ![c].fault = "build",
                                        ![c].result = Catch(built.message)]
              ELSE call' = [call EXCEPT ![c].pc = "post", ![c].kind = "playground",
                                        ![c].prompt = built.prompt]
    /\ UNCHANGED <<cache, log, logExists, source, response, parsing, parsed>>

\* The call returns result after the POST came back with reply.
Return(c, reply, result) ==
    call' = [call EXCEPT ![c].pc = "done", ![c].posts = @ + 1, ![c].result = result,
                         ![c].fault = IF reply.failed THEN "transport"
                                      ELSE IF result.hasError THEN "envelope" ELSE ""]

\* The POST to /api/generate comes back and the call returns.
Post(c) ==
    /\ call[c].pc = "post"
    /\ \E reply \in HttpOutcomes : Return(c, reply, HandleReply(reply))
    /\ UNCHANGED <<cache, log, logExists, source, response, parsing, parsed>>

Next ==
    \E c \in Calls :
        \/ StartDocument(c)
        \/ Access(c)
        \/ Fetch(c)
        \/ Mkdir(c)
        \/ WriteFileOpen(c)
        \/ WriteFileData(c)
        \/ LogStat(c)
        \/ LogUnlink(c)
        \/ LogAppend(c)
        \/ StartPlayground(c)
        \/ Post(c)

Spec == Init /\ [][Next]_vars

(***************************************************************************)
(* Sequential direct calls of writePromptToFile by one caller              *)
(***************************************************************************)
\* writePromptToFile(systemPrompt) is called and issues fs.stat; the caller
\* has no call in progress.  The model stops calling at MaxLogEntries entries.
StartWrite(c) ==
    /\ call[c].pc \in {"idle", "done"}
    /\ Len(log) < MaxLogEntries
    /\ \E systemPrompt \in Prompts :
          call' = [call EXCEPT ![c] = [Idle EXCEPT !.pc = "stat", !.kind = "write",
                                                  !.prompt = systemPrompt]]
    /\ UNCHANGED <<cache, log, logExists, source, response, parsing, parsed>>

NextLog ==
    \/ StartWrite(1)
    \/ LogStat(1)
    \/ LogUnlink(1)
    \/ LogAppend(1)

SpecLog == Init /\ [][NextLog]_vars

(***************************************************************************)
(* Direct calls of _parseResponse                                          *)
(***************************************************************************)
InitParse ==
    /\ call = [c \in Calls |-> Idle]
    /\ cache = NoFile
    /\ log = <<>>
    /\ logExists = FALSE
    /\ source \in Sources
    /\ response = Render(source)
    /\ parsing = "called"
    /\ parsed = NotParsing

CallParseResponse ==
    /\ parsing = "called"
    /\ parsed' = ParseResponse(response)
    /\ parsing' = "returned"
    /\ UNCHANGED <<call, cache, log, logExists, source, response>>

SpecParse == InitParse /\ [][CallParseResponse]_vars

(***************************************************************************)
(* Properties                                                              *)
(***************************************************************************)
Range(s) == {s[i] : i \in DOMAIN s}

Finished(c) == call[c].pc = "done"

\* The degraded result: no tags, no correspondent, no metrics, an error text.
IsDegraded(r) ==
    /\ r.document.tags = Arr(<<>>)
    /\ r.document.correspondent = Null
    /\ r.metrics = "null"
    /\ r.hasError
    /\ r.error # ""

\* stat, unlink or appendFile failed in the call's writePromptToFile.
LogFailure(c) == call[c].checkFailed \/ call[c].appendFailed

\* C1 as stated: analyzeDocument and analyzePlayground never raise, and a
\* failure of any step of the call, prompt logging included, ends in the
\* degraded result.
C1_AnyFailureDegrades ==
    \A c \in Calls :
        Finished(c) =>
            /\ call[c].result.status = "returned"
            /\ (call[c].fault # "" \/ LogFailure(c)) => IsDegraded(call[c].result)

\* C1 amended: the calls never raise; a failure of prompt building, thumbnail
\* caching, the POST or the reply envelope ends in the degraded result, and a
\* call without such a failure, whatever happened to the prompt log, returns
\* a result without an error.
C1_NeverRaises ==
    \A c \in Calls :
        Finished(c) =>
            /\ call[c].result.status = "returned"
            /\ call[c].fault # "" => IsDegraded(call[c].result)
            /\ call[c].fault = "" => ~call[c].result.hasError

C1_Witness ==
    \E c \in Calls :
        /\ Finished(c)
        /\ call[c].kind = "document"
        /\ call[c].fault = "transport"
        /\ call[c].appendFailed
        /\ IsDegraded(call[c].result)

\* C2: a filesystem failure during thumbnail caching or prompt logging does
\* not abort analyzeDocument: the request is still posted and the result is
\* built from the reply (metrics, no error), unless the POST itself fails.
C2_FilesystemFailureDoesNotAbort ==
    \A c \in Calls :
        (/\ Finished(c)
         /\ call[c].kind = "document"
         /\ \/ call[c].fault \in {"mkdir", "write", "thumbnail"}
            \/ (LogFailure(c) /\ call[c].fault = ""))
            => /\ call[c].posts = 1
               /\ call[c].result.metrics = "zero"
               /\ ~call[c].result.hasError

\* C3: the result has an error if and only if the transport failed (the POST
\* was rejected or its envelope has no response text).
C3_ErrorOnlyForTransport ==
    \A c \in Calls :
        Finished(c) =>
            (call[c].result.hasError <=> call[c].fault \in {"transport", "envelope"})

\* C5 as stated: every call that posts has appended its prompt to the log
\* before.
C5_PostedImpliesAppended ==
    \A c \in Calls : (call[c].pc = "post" \/ call[c].posts > 0) => call[c].appended

\* C5 amended: analyzeDocument posts only after its writePromptToFile has run
\* appendFile for its prompt, which put the prompt at the end of the log unless
\* it failed; analyzePlayground posts without writing to the log.
C5_PostAfterAppendAttempt ==
    /\ [](\A c \in Calls :
            /\ (call[c].kind = "document" /\ (call[c].pc = "post" \/ call[c].posts > 0))
                  => (call[c].appended \/ call[c].appendFailed)
            /\ call[c].kind = "playground" => (~call[c].appended /\ ~call[c].appendFailed))
    /\ [][\A c \in Calls :
            (call'[c].appended /\ ~call[c].appended)
                => (log' = Append(log, call[c].prompt) /\ call'[c].posts = 0)]_vars

C5_Witness ==
    \E c \in Calls : call[c].kind = "document" /\ call[c].posts = 1 /\ call[c].appended

\* C6: a call posts at most once and fetches the thumbnail at most once, and
\* only after fs.access failed; a call that found the file cached neither
\* fetches nor writes, and none of its steps changes the cache file.
C6_AtMostOneFetchOnlyOnMiss ==
    /\ [](\A c \in Calls :
            /\ call[c].posts <= 1
            /\ call[c].fetches <= 1
            /\ call[c].hit => (call[c].fetches = 0 /\ call[c].writes = 0))
    /\ [][\A c \in Calls : (call[c].hit /\ call'[c] # call[c]) => cache' = cache]_vars

C6_Witness ==
    \E c \in Calls :
        /\ Finished(c)
        /\ call[c].hit
        /\ call[c].posts = 1
        /\ cache.data = <<Thumbnail>>

\* C9 as stated: after every completed write the log is at most maxSize plus
\* the entry just written.
C9_SizeCapped ==
    Finished(1) => LogSize(log) <= maxSize + EntrySize(call[1].prompt)

\* C9 amended: in sequential calls of writePromptToFile whose stat and unlink
\* did not fail, the entry is appended to a log of at most maxSize, so after
\* the write the log is at most maxSize plus that entry; the log changes only
\* by an entry appended or by the removal of a log larger than maxSize.
C9_SizeCappedUnlessCheckFails ==
    /\ []((call[1].pc = "append" /\ ~call[1].checkFailed) => LogSize(log) <= maxSize)
    /\ []((Finished(1) /\ ~call[1].checkFailed)
            => LogSize(log) <= maxSize + EntrySize(call[1].prompt))
    /\ [][\/ log' = log
          \/ (log' = <<>> /\ LogSize(log) > maxSize)
          \/ \E systemPrompt \in Prompts : log' = Append(log, systemPrompt)]_vars

C9_Witness ==
    /\ Finished(1)
    /\ call[1].unlinked
    /\ call[1].appended
    /\ ~call[1].checkFailed
    /\ log = <<call[1].prompt>>

Returned == parsing = "returned"

\* A field of the record: a truthy value, or null, or not set.
FieldOk(v) == v \in {Null, Undef} \/ Truthy(v)

\* The field of the record is the object's value when that is truthy.
TakenFrom(obj, key, v) == v \in {Null, Undef} \/ v = Get(obj, key)

\* The text before the object has no "{" and the text after it no "}": the
\* matched span is the object's text.
SpanIsObject ==
    /\ source.kind = "object"
    /\ "{" \notin Range(source.pre)
    /\ "}" \notin Range(source.post)

\* C4: _parseResponse never raises, tags is always an array, and each other
\* field is a truthy value of the parsed object, null or not set.
C4_AlwaysARecord ==
    Returned =>
        /\ ~parsed.thrown
        /\ IsArray(parsed.doc.tags)
        /\ FieldOk(parsed.doc.correspondent)
        /\ FieldOk(parsed.doc.title)
        /\ FieldOk(parsed.doc.document_date)
        /\ FieldOk(parsed.doc.language)
        /\ (SpanIsObject /\ source.style = Strict) =>
              /\ TakenFrom(source.obj, KCorrespondent, parsed.doc.correspondent)
              /\ TakenFrom(source.obj, KTitle, parsed.doc.title)

C4_Witness ==
    /\ Returned
    /\ SpanIsObject
    /\ source.style = Strict
    /\ Get(source.obj, KTags) = Str(<<"A">>)
    /\ Get(source.obj, KCorrespondent) = Str(<<>>)
    /\ parsed.doc.tags = Arr(<<>>)
    /\ parsed.doc.correspondent = Null

\* The source is a well-formed JSON object with a tags array.
WellFormedWithTags ==
    /\ source.kind = "object"
    /\ source.style = Strict
    /\ IsArray(Get(source.obj, KTags))

\* The record has the object's tags, and every field the object does not set
\* is null or not set.
TagsVerbatim ==
    /\ parsed.doc.tags = Get(source.obj, KTags)
    /\ Get(source.obj, KCorrespondent) = Undef => parsed.doc.correspondent \in {Null, Undef}
    /\ Get(source.obj, KTitle) = Undef => parsed.doc.title \in {Null, Undef}
    /\ parsed.doc.document_date \in {Null, Undef}
    /\ parsed.doc.language \in {Null, Undef}

\* C7 as stated: for a well-formed JSON object with a tags array between any
\* two pieces of text, the record has those tags.
C7_TagsVerbatimAnywhere == (Returned /\ WellFormedWithTags) => TagsVerbatim

\* C7 amended: for a well-formed JSON object with a tags array, with no "{" in
\* the text before it and no "}" in the text after it, the record has those
\* tags in order and unmodified, and the fields the object does not set are
\* null.
C7_TagsVerbatimInSpan == (Returned /\ WellFormedWithTags /\ SpanIsObject) => TagsVerbatim

C7_Witness ==
    /\ Returned
    /\ WellFormedWithTags
    /\ source.pre = <<"H", "e", "r", "e", ":", " ">>
    /\ source.post = <<" ", "o", "k">>
    /\ Get(source.obj, KTags) = Arr(<<Str(<<"b", ":">>), Str(<<"A">>)>>)
    /\ parsed.doc.tags = Get(source.obj, KTags)

\* No string of the value holds ":" or ",", and every name is made of word
\* characters.
RECURSIVE PlainStrings(_)
PlainStrings(v) ==
    CASE v.t = "str" -> ":" \notin Range(v.s) /\ "," \notin Range(v.s)
      [] v.t = "arr" -> \A i \in DOMAIN v.k : PlainStrings(v.k[i])
      [] v.t = "obj" ->
            \A i \in DOMAIN v.k :
                /\ v.k[i].key # <<>>
                /\ \A ch \in Range(v.k[i].key) : IsWordChar(ch)
                /\ PlainStrings(v.k[i].val)
      [] OTHER -> TRUE

\* The record _parseResponse gives for the object written as well-formed JSON.
CorrectedRecord == ParseResponse(Str(ValueText(source.obj, Strict))).doc

\* The repair ran only after the strict parse of the span had failed.
RepairOnlyAfterFailure ==
    (response.t = "str" /\ MatchJson(response.s).found)
        => IF JSONParse(MatchJson(response.s).str).ok
           THEN parsed.parses = 1 /\ ~parsed.sanitized
           ELSE parsed.parses = 2 /\ parsed.sanitized

\* C8 as stated: a span that is a well-formed JSON object but for trailing
\* commas and unquoted or single-quoted names is repaired into the record of
\* the corrected JSON, after one more parse; no repair runs when the strict
\* parse succeeds.
C8_RepairRecoversObject ==
    Returned =>
        /\ RepairOnlyAfterFailure
        /\ SpanIsObject => parsed.doc = CorrectedRecord

\* C8 amended: the same, for objects whose names are made of word characters
\* and whose strings hold no ":" and no ",".
C8_RepairRecoversPlainObject ==
    Returned =>
        /\ RepairOnlyAfterFailure
        /\ (SpanIsObject /\ PlainStrings(source.obj)) => parsed.doc = CorrectedRecord

C8_Witness ==
    /\ Returned
    /\ SpanIsObject
    /\ source.style = [names |-> "bare", arrayComma |-> TRUE, objectComma |-> TRUE]
    /\ Get(source.obj, KTags) = Arr(<<Str(<<"A">>), Str(<<"A">>)>>)
    /\ Get(source.obj, KCorrespondent) = Null
    /\ parsed.sanitized
    /\ parsed.parses = 2
    /\ parsed.doc.tags = Get(source.obj, KTags)

====
